---- MODULE Spec2Model ----
(***************************************************************************)
(* Implicit linear operators of pygimli/core/matrix.py: the scaling        *)
(* operators (MultLeft, MultRight, MultLeftRight), the composites (Add2,   *)
(* Mult2, Diagonal), the inverse square root operator (Cm05), the          *)
(* geostatistical constraints operator, and the block assembly's addMatrix *)
(* with NDMatrix.                                                          *)
(*                                                                         *)
(* Vectors are sequences of integers; a terminal (storage engine) matrix   *)
(* is a sequence of rows.  A call ends in an outcome: kind "ok" with a     *)
(* value, or the kind of the exception that ended it.                      *)
(***************************************************************************)
EXTENDS Integers, Sequences, FiniteSets, TLC

VARIABLES op, last, asm, heap, ret

vars == <<op, last, asm, heap, ret>>

(* ---------------------------------------------------------------- bounds *)

\* entries of the vectors handed to the operators: 0..MaxVal
MaxVal == 1

\* vector lengths and matrix dimensions of the operands
Dims == {1, 2}

Vals == 0 .. MaxVal

Vec(n) == [1 .. n -> Vals]

Vecs == UNION {Vec(n) : n \in Dims}

\* entries of the terminal matrices
MatVals == {0, 1}

Mat(m, n) == [1 .. m -> [1 .. n -> MatVals]]

Mats == UNION {Mat(m, n) : m \in Dims, n \in Dims}

Ones(n) == [k \in 1 .. n |-> 1]

Zeros(n) == [k \in 1 .. n |-> 0]

(* -------------------------------------------------------------- outcomes *)

Ok(v) == [kind |-> "ok", val |-> v]

Raise(k) == [kind |-> k, val |-> <<>>]

(* ------------------------------------------- storage engine (pgcore) ops *)

RECURSIVE SumTo(_, _)
SumTo(f, n) == IF n = 0 THEN 0 ELSE f[n] + SumTo(f, n - 1)

Dot(a, b) == SumTo([k \in 1 .. Len(a) |-> a[k] * b[k]], Len(a))

\* RVector * RVector, elementwise
VecMul(a, b) ==
    IF Len(a) # Len(b) THEN Raise("ShapeMismatch")
    ELSE Ok([k \in 1 .. Len(a) |-> a[k] * b[k]])

\* RVector + RVector
VecAdd(a, b) ==
    IF Len(a) # Len(b) THEN Raise("ShapeMismatch")
    ELSE Ok([k \in 1 .. Len(a) |-> a[k] + b[k]])

\* RVector - RVector
VecSub(a, b) ==
    IF Len(a) # Len(b) THEN Raise("ShapeMismatch")
    ELSE Ok([k \in 1 .. Len(a) |-> a[k] - b[k]])

MatRows(M) == Len(M)

MatCols(M) == Len(M[1])

\* RMatrix.mult: A * x
MatMult(M, x) ==
    IF Len(x) # MatCols(M) THEN Raise("ShapeMismatch")
    ELSE Ok([a \in 1 .. MatRows(M) |-> Dot(M[a], x)])

\* RMatrix.transMult: A^T * x
MatTransMult(M, x) ==
    IF Len(x) # MatRows(M) THEN Raise("ShapeMismatch")
    ELSE Ok([b \in 1 .. MatCols(M) |->
             SumTo([a \in 1 .. MatRows(M) |-> M[a][b] * x[a]], MatRows(M))])

(* ------------------------------------------------------ operator objects *)

\* the fields an operator object of this module can hold; <<>> is "not set".
\* withRef is no attribute: it records the constructor's withRef argument of a
\* geostatistical operator for the properties that speak of it.
NoOp ==
    [kind |-> "none", A |-> <<>>, B |-> <<>>, l |-> <<>>, r |-> <<>>,
     d |-> <<>>, size |-> 0, ew |-> <<>>, EV |-> <<>>, mul |-> <<>>,
     nModel |-> 0, spur |-> <<>>, withRef |-> FALSE]

\* MultMatrix.rows / cols: those of the wrapped matrix
MultMatrix_rows(self) == MatRows(self.A)

MultMatrix_cols(self) == MatCols(self.A)

\* MultLeftMatrix(A, left)
MultLeftMatrix_init(A, left) ==
    IF MatRows(A) # Len(left) THEN Raise("ShapeMismatch")
    ELSE Ok([NoOp EXCEPT !.kind = "MultLeft", !.A = A, !.l = left])

\* MultLeftMatrix.mult: A.mult(x) * l
MultLeftMatrix_mult(self, x) ==
    LET a == MatMult(self.A, x)
    IN  IF a.kind # "ok" THEN a ELSE VecMul(a.val, self.l)

\* MultLeftMatrix.transMult: A.transMult(x * l)
MultLeftMatrix_transMult(self, x) ==
    LET a == VecMul(x, self.l)
    IN  IF a.kind # "ok" THEN a ELSE MatTransMult(self.A, a.val)

\* MultRightMatrix(A, r): no r given is RVector(cols, 1.0); hasR says r was given
MultRightMatrix_init(A, hasR, r) ==
    Ok([NoOp EXCEPT !.kind = "MultRight", !.A = A,
                    !.r = IF hasR THEN r ELSE Ones(MatCols(A))])

\* MultRightMatrix.mult: a length of x other than that of r reads self.perm,
\* which no class of the module sets
MultRightMatrix_mult(self, x) ==
    IF Len(x) # Len(self.r) THEN Raise("AttributeError")
    ELSE LET a == VecMul(x, self.r)
         IN  IF a.kind # "ok" THEN a ELSE MatMult(self.A, a.val)

\* MultRightMatrix.transMult: A.transMult(x) * r
MultRightMatrix_transMult(self, x) ==
    LET a == MatTransMult(self.A, x)
    IN  IF a.kind # "ok" THEN a ELSE VecMul(a.val, self.r)

\* MultLeftRightMatrix(A, left, right)
MultLeftRightMatrix_init(A, left, right) ==
    IF MatCols(A) # Len(right) THEN Raise("ShapeMismatch")
    ELSE IF MatRows(A) # Len(left) THEN Raise("ShapeMismatch")
    ELSE Ok([NoOp EXCEPT !.kind = "MultLeftRight", !.A = A,
                         !.r = right, !.l = left])

\* MultLeftRightMatrix.mult: A.mult(x * r) * l
MultLeftRightMatrix_mult(self, x) ==
    LET a == VecMul(x, self.r)
    IN  IF a.kind # "ok" THEN a
        ELSE LET b == MatMult(self.A, a.val)
             IN  IF b.kind # "ok" THEN b ELSE VecMul(b.val, self.l)

\* MultLeftRightMatrix.transMult: A.transMult(x * l) * r
MultLeftRightMatrix_transMult(self, x) ==
    LET a == VecMul(x, self.l)
    IN  IF a.kind # "ok" THEN a
        ELSE LET b == MatTransMult(self.A, a.val)
             IN  IF b.kind # "ok" THEN b ELSE VecMul(b.val, self.r)

\* Add2Matrix(A, B): the two asserts
Add2Matrix_init(A, B) ==
    IF MatRows(A) # MatRows(B) \/ MatCols(A) # MatCols(B)
    THEN Raise("ShapeMismatch")
    ELSE Ok([NoOp EXCEPT !.kind = "Add2", !.A = A, !.B = B])

\* Add2Matrix.mult: A.mult(x) + B.mult(x)
Add2Matrix_mult(self, x) ==
    LET a == MatMult(self.A, x)
    IN  IF a.kind # "ok" THEN a
        ELSE LET b == MatMult(self.B, x)
             IN  IF b.kind # "ok" THEN b ELSE VecAdd(a.val, b.val)

\* Add2Matrix.transMult: A.transMult(x) + B.transMult(x)
Add2Matrix_transMult(self, x) ==
    LET a == MatTransMult(self.A, x)
    IN  IF a.kind # "ok" THEN a
        ELSE LET b == MatTransMult(self.B, x)
             IN  IF b.kind # "ok" THEN b ELSE VecAdd(a.val, b.val)

\* Mult2Matrix(A, B): the assert
Mult2Matrix_init(A, B) ==
    IF MatCols(A) # MatRows(B) THEN Raise("ShapeMismatch")
    ELSE Ok([NoOp EXCEPT !.kind = "Mult2", !.A = A, !.B = B])

\* Mult2Matrix.mult: A.mult(B.mult(x))
Mult2Matrix_mult(self, x) ==
    LET b == MatMult(self.B, x)
    IN  IF b.kind # "ok" THEN b ELSE MatMult(self.A, b.val)

\* a transMult that keeps the operand order of mult
Mult2Matrix_transMult_unreversed(self, x) ==
    LET b == MatTransMult(self.B, x)
    IN  IF b.kind # "ok" THEN b ELSE MatTransMult(self.A, b.val)

\* Mult2Matrix.transMult: B.transMult(A.transMult(x))
Mult2Matrix_transMult(self, x) ==
    LET a == MatTransMult(self.A, x)
    IN  IF a.kind # "ok" THEN a ELSE MatTransMult(self.B, a.val)

\* DiagonalMatrix(d)
DiagonalMatrix_init(d) == Ok([NoOp EXCEPT !.kind = "Diagonal", !.d = d])

\* DiagonalMatrix.mult and transMult: x * d
DiagonalMatrix_mult(self, x) == VecMul(x, self.d)

DiagonalMatrix_transMult(self, x) == VecMul(x, self.d)

(* ------------------------------------------------ inverse square root *)

\* scipy.linalg.eigh(A) is outside the module: for a symmetric n x n input
\* it returns n eigenvalues ew and an n x n matrix EV with
\* A = EV . diag(ew) . EV^T.  The model reads that equation the other way: its
\* covariance inputs are the matrices some pair (ew, EV) over these entries
\* recomposes to, and eigh(A) is any such pair, EV orthonormal or not, so what
\* holds of the operators holds for whatever decomposition eigh returns.
EigVals == {1, 4}

EigVecEntries == {-1, 0, 1}

Ews(n) == [1 .. n -> EigVals]

EVs(n) == [1 .. n -> [1 .. n -> EigVecEntries]]

Decomps == UNION {Ews(n) \X EVs(n) : n \in Dims}

\* EV . diag(ew) . EV^T
Recompose(ew, EV) ==
    LET n == Len(ew)
    IN  [a \in 1 .. n |-> [b \in 1 .. n |->
            SumTo([k \in 1 .. n |-> EV[a][k] * ew[k] * EV[b][k]], n)]]

NonSquareMats == {M \in Mats : MatRows(M) # MatCols(M)}

\* what a caller hands to Cm05Matrix: a symmetric matrix, or by mistake a
\* matrix that is not square
CovInputs == {Recompose(p[1], p[2]) : p \in Decomps} \cup NonSquareMats

\* eigh(A); the constructor does not reach it when A is not square
Eigh(A) ==
    IF MatRows(A) # MatCols(A) THEN {<<<<>>, <<>>>>}
    ELSE {p \in Decomps : Len(p[1]) = MatRows(A) /\ Recompose(p[1], p[2]) = A}

\* np.sqrt(1. / t), as a numerator over the denominator 2, for t in EigVals:
\* sqrt(1/1) = 2/2, sqrt(1/4) = 1/2.  Every result of Cm05Matrix.mult, and the
\* spur, is such a numerator over 2.
InvSqrt(t) == IF t = 1 THEN 2 ELSE 1

\* Cm05Matrix(A): A must be square; ew, EV = eigh(A); mul = sqrt(1 / ew)
Cm05Matrix_init(A, ew, EV) ==
    IF MatRows(A) # MatCols(A) THEN Raise("ShapeMismatch")
    ELSE Ok([NoOp EXCEPT !.kind = "Cm05", !.size = MatRows(A), !.ew = ew,
                         !.EV = EV,
                         !.mul = [k \in 1 .. Len(ew) |-> InvSqrt(ew[k])],
                         !.A = A])

\* Cm05Matrix.mult: EV . ((x^T . EV)^T * mul)
Cm05Matrix_mult(self, x) ==
    LET p == MatTransMult(self.EV, x)
    IN  IF p.kind # "ok" THEN p
        ELSE LET part1 == VecMul(p.val, self.mul)
             IN  IF part1.kind # "ok" THEN part1
                 ELSE MatMult(self.EV, part1.val)

\* Cm05Matrix.transMult: self.mult(x)
Cm05Matrix_transMult(self, x) == Cm05Matrix_mult(self, x)

(* ------------------------------------------------------ geostatistical *)

\* the CM05 member of a geostatistical operator
CM05(self) ==
    [self EXCEPT !.kind = "Cm05", !.nModel = 0, !.spur = <<>>,
                 !.withRef = FALSE]

\* a constructor that zeroes the spur unless withRef is set
GeostatisticConstraintsMatrix_init_inverted(CM, withRef, ew, EV) ==
    LET c == Cm05Matrix_init(CM, ew, EV)
    IN  IF c.kind # "ok" THEN c
        ELSE LET s == Cm05Matrix_mult(c.val, Ones(MatRows(CM)))
             IN  IF s.kind # "ok" THEN s
                 ELSE Ok([c.val EXCEPT
                            !.kind = "Geostatistical",
                            !.nModel = MatRows(CM),
                            !.withRef = withRef,
                            !.spur = IF ~withRef
                                     THEN [k \in 1 .. Len(s.val) |-> s.val[k] * 0]
                                     ELSE s.val])

\* GeostatisticConstraintsMatrix(CM, withRef=...), CM a covariance matrix
\* (from the caller or from covarianceMatrix(mesh), which is outside the module)
GeostatisticConstraintsMatrix_init(CM, withRef, ew, EV) ==
    LET c == Cm05Matrix_init(CM, ew, EV)
    IN  IF c.kind # "ok" THEN c
        ELSE LET s == Cm05Matrix_mult(c.val, Ones(MatRows(CM)))
             IN  IF s.kind # "ok" THEN s
                 ELSE Ok([c.val EXCEPT
                            !.kind = "Geostatistical",
                            !.nModel = MatRows(CM),
                            !.withRef = withRef,
                            !.spur = IF withRef
                                     THEN [k \in 1 .. Len(s.val) |-> s.val[k] * 0]
                                     ELSE s.val])

\* GeostatisticConstraintsMatrix.mult: CM05.mult(x) - spur * x
GeostatisticConstraintsMatrix_mult(self, x) ==
    LET a == Cm05Matrix_mult(CM05(self), x)
    IN  IF a.kind # "ok" THEN a
        ELSE LET s == VecMul(self.spur, x)
             IN  IF s.kind # "ok" THEN s ELSE VecSub(a.val, s.val)

\* GeostatisticConstraintsMatrix.transMult: CM05.transMult(x) - spur * x
GeostatisticConstraintsMatrix_transMult(self, x) ==
    LET a == Cm05Matrix_transMult(CM05(self), x)
    IN  IF a.kind # "ok" THEN a
        ELSE LET s == VecMul(self.spur, x)
             IN  IF s.kind # "ok" THEN s ELSE VecSub(a.val, s.val)

(* ------------------------------------------------ the four operations *)

ScalingKinds == {"MultLeft", "MultRight", "MultLeftRight"}

rows(self) ==
    CASE self.kind \in ScalingKinds -> MultMatrix_rows(self)
      [] self.kind = "Add2" -> MatRows(self.A)
      [] self.kind = "Mult2" -> MatRows(self.A)
      [] self.kind = "Diagonal" -> Len(self.d)
      [] self.kind = "Cm05" -> self.size
      [] self.kind = "Geostatistical" -> self.nModel

cols(self) ==
    CASE self.kind \in ScalingKinds -> MultMatrix_cols(self)
      [] self.kind = "Add2" -> MatCols(self.A)
      [] self.kind = "Mult2" -> MatCols(self.B)
      [] self.kind = "Diagonal" -> Len(self.d)
      [] self.kind = "Cm05" -> self.size
      [] self.kind = "Geostatistical" -> self.nModel

mult(self, x) ==
    CASE self.kind = "MultLeft" -> MultLeftMatrix_mult(self, x)
      [] self.kind = "MultRight" -> MultRightMatrix_mult(self, x)
      [] self.kind = "MultLeftRight" -> MultLeftRightMatrix_mult(self, x)
      [] self.kind = "Add2" -> Add2Matrix_mult(self, x)
      [] self.kind = "Mult2" -> Mult2Matrix_mult(self, x)
      [] self.kind = "Diagonal" -> DiagonalMatrix_mult(self, x)
      [] self.kind = "Cm05" -> Cm05Matrix_mult(self, x)
      [] self.kind = "Geostatistical" ->
             GeostatisticConstraintsMatrix_mult(self, x)

transMult(self, x) ==
    CASE self.kind = "MultLeft" -> MultLeftMatrix_transMult(self, x)
      [] self.kind = "MultRight" -> MultRightMatrix_transMult(self, x)
      [] self.kind = "MultLeftRight" -> MultLeftRightMatrix_transMult(self, x)
      [] self.kind = "Add2" -> Add2Matrix_transMult(self, x)
      [] self.kind = "Mult2" -> Mult2Matrix_transMult(self, x)
      [] self.kind = "Diagonal" -> DiagonalMatrix_transMult(self, x)
      [] self.kind = "Cm05" -> Cm05Matrix_transMult(self, x)
      [] self.kind = "Geostatistical" ->
             GeostatisticConstraintsMatrix_transMult(self, x)

(* ------------------------------------------------------------ actions *)

\* the last call made: its name, its vector argument, and its outcome
NoCall == [call |-> "none", x |-> <<>>, kind |-> "ok", val |-> <<>>]

Called(name, x, out) ==
    [call |-> name, x |-> x, kind |-> out.kind,
     val |-> IF out.kind = "ok" THEN out.val ELSE <<>>]

BlockIdle == UNCHANGED <<asm, heap, ret>>

\* a constructor call: the object exists only if the constructor returned
Construct(out) ==
    /\ op' = IF out.kind = "ok" THEN out.val ELSE op
    /\ last' = [call |-> "init", x |-> <<>>, kind |-> out.kind, val |-> <<>>]
    /\ BlockIdle

NewMultLeft ==
    /\ op.kind = "none"
    /\ \E A \in Mats, l \in Vecs : Construct(MultLeftMatrix_init(A, l))

NewMultRight ==
    /\ op.kind = "none"
    /\ \E A \in Mats, hasR \in BOOLEAN, r \in Vecs :
        /\ (~hasR => r = Ones(1))
        /\ Construct(MultRightMatrix_init(A, hasR, r))

NewMultLeftRight ==
    /\ op.kind = "none"
    /\ \E A \in Mats, l \in Vecs, r \in Vecs :
        Construct(MultLeftRightMatrix_init(A, l, r))

NewAdd2 ==
    /\ op.kind = "none"
    /\ \E A \in Mats, B \in Mats : Construct(Add2Matrix_init(A, B))

NewMult2 ==
    /\ op.kind = "none"
    /\ \E A \in Mats, B \in Mats : Construct(Mult2Matrix_init(A, B))

NewDiagonal ==
    /\ op.kind = "none"
    /\ \E d \in Vecs : Construct(DiagonalMatrix_init(d))

NewCm05 ==
    /\ op.kind = "none"
    /\ \E A \in CovInputs :
        \E p \in Eigh(A) : Construct(Cm05Matrix_init(A, p[1], p[2]))

NewGeostatistical ==
    /\ op.kind = "none"
    /\ \E CM \in CovInputs, withRef \in BOOLEAN :
        \E p \in Eigh(CM) :
            Construct(GeostatisticConstraintsMatrix_init(CM, withRef, p[1], p[2]))

CallRows ==
    /\ op.kind # "none"
    /\ last' = Called("rows", <<>>, Ok(<<rows(op)>>))
    /\ UNCHANGED op
    /\ BlockIdle

CallCols ==
    /\ op.kind # "none"
    /\ last' = Called("cols", <<>>, Ok(<<cols(op)>>))
    /\ UNCHANGED op
    /\ BlockIdle

\* a mult that scales the stored right vector in place
CallMult_inplace ==
    /\ op.kind # "none"
    /\ \E x \in Vecs :
        /\ last' = Called("mult", x, mult(op, x))
        /\ op' = IF op.kind = "MultRight" /\ Len(x) = Len(op.r)
                 THEN [op EXCEPT !.r = VecMul(x, op.r).val]
                 ELSE op
    /\ BlockIdle

CallMult ==
    /\ op.kind # "none"
    /\ \E x \in Vecs : last' = Called("mult", x, mult(op, x))
    /\ UNCHANGED op
    /\ BlockIdle

CallTransMult ==
    /\ op.kind # "none"
    /\ \E x \in Vecs : last' = Called("transMult", x, transMult(op, x))
    /\ UNCHANGED op
    /\ BlockIdle

\* MultMatrix.save: pass
CallSave ==
    /\ op.kind \in ScalingKinds
    /\ last' = Called("save", <<>>, Ok(<<>>))
    /\ UNCHANGED op
    /\ BlockIdle

\* op.A = A: the MultMatrix.A setter
SetA ==
    /\ op.kind \in ScalingKinds
    /\ \E A \in Mats :
        /\ op' = [op EXCEPT !.A = A]
        /\ last' = Called("A=", <<>>, Ok(<<>>))
    /\ BlockIdle

\* op.l = v: MultLeftRightMatrix has the setter; in MultLeftMatrix the setter
\* made from l is bound to the name r, so l has none
SetL ==
    /\ op.kind \in {"MultLeft", "MultLeftRight"}
    /\ \E v \in Vecs :
        IF op.kind = "MultLeft"
        THEN /\ op' = op
             /\ last' = Called("l=", v, Raise("AttributeError"))
        ELSE /\ op' = [op EXCEPT !.l = v]
             /\ last' = Called("l=", v, Ok(<<>>))
    /\ BlockIdle

\* op.r = v: MultRightMatrix and MultLeftRightMatrix set _r; MultLeftMatrix's
\* property r sets _l
SetR ==
    /\ op.kind \in ScalingKinds
    /\ \E v \in Vecs :
        /\ op' = IF op.kind = "MultLeft" THEN [op EXCEPT !.l = v]
                 ELSE [op EXCEPT !.r = v]
        /\ last' = Called("r=", v, Ok(<<>>))
    /\ BlockIdle

Init ==
    /\ op = NoOp
    /\ last = NoCall
    /\ asm = [kind |-> "none", mats |-> <<>>, core |-> <<>>,
              entries |-> <<>>, returned |-> 0]
    /\ heap = <<>>
    /\ ret = [call |-> "none", kind |-> "ok", val |-> <<>>,
              M |-> [type |-> "none", ndim |-> 0, rows |-> 0, cols |-> 0,
                     i |-> <<>>, j |-> <<>>, v |-> <<>>],
              row |-> 0 - 1, col |-> 0 - 1, scale |-> 0, transpose |-> FALSE]

Next ==
    \/ NewMultLeft
    \/ NewMultRight
    \/ NewMultLeftRight
    \/ NewAdd2
    \/ NewMult2
    \/ NewDiagonal
    \/ NewCm05
    \/ NewGeostatistical
    \/ CallRows
    \/ CallCols
    \/ CallMult
    \/ CallTransMult
    \/ CallSave
    \/ SetA
    \/ SetL
    \/ SetR

Spec == Init /\ [][Next]_vars

(* ------------------------------------------- properties: the operators *)

\* C1: a mult(x) with len(x) # cols() ends in ShapeMismatch, on every
\* operator: it returns no vector and fails in no other way.
C1_MultShapeMismatch ==
    (last.call = "mult" /\ Len(last.x) # cols(op))
        => last.kind = "ShapeMismatch"

\* the lengths the scaling vectors must have
WellShaped(self) ==
    /\ self.kind \in {"MultLeft", "MultLeftRight"}
           => Len(self.l) = MatRows(self.A)
    /\ self.kind \in {"MultRight", "MultLeftRight"}
           => Len(self.r) = MatCols(self.A)

\* C2: in every state of a scaling operator, after its construction and any
\* of its operations, len(left) = A.rows() and len(right) = A.cols() for the
\* vectors it has.
C2_ScalingShape == op.kind \in ScalingKinds => WellShaped(op)

\* the matrix an operator stands for, entry by entry
MatProd(A, B) ==
    [a \in 1 .. MatRows(A) |-> [b \in 1 .. MatCols(B) |->
        SumTo([k \in 1 .. MatCols(A) |-> A[a][k] * B[k][b]], MatCols(A))]]

Dense(self) ==
    CASE self.kind = "MultLeft" ->
             [a \in 1 .. MatRows(self.A) |-> [b \in 1 .. MatCols(self.A) |->
                 self.l[a] * self.A[a][b]]]
      [] self.kind = "MultRight" ->
             [a \in 1 .. MatRows(self.A) |-> [b \in 1 .. MatCols(self.A) |->
                 self.A[a][b] * self.r[b]]]
      [] self.kind = "MultLeftRight" ->
             [a \in 1 .. MatRows(self.A) |-> [b \in 1 .. MatCols(self.A) |->
                 self.l[a] * self.A[a][b] * self.r[b]]]
      [] self.kind = "Add2" ->
             [a \in 1 .. MatRows(self.A) |-> [b \in 1 .. MatCols(self.A) |->
                 self.A[a][b] + self.B[a][b]]]
      [] self.kind = "Mult2" -> MatProd(self.A, self.B)
      [] self.kind = "Diagonal" ->
             [a \in 1 .. Len(self.d) |-> [b \in 1 .. Len(self.d) |->
                 IF a = b THEN self.d[a] ELSE 0]]

CompositionKinds == ScalingKinds \cup {"Add2", "Mult2", "Diagonal"}

\* C9: for Mult2, Add2, MultLeft, MultRight, MultLeftRight and Diagonal over
\* terminal matrices of compatible shapes, mult(x) applies a matrix M to an x
\* of length cols() and gives length rows(), transMult(y) applies M^T to a y
\* of length rows() and gives length cols() (for Mult2, (A*B)^T y), and
\* dot(mult(x), y) = dot(x, transMult(y)).
C9_Adjoint ==
    (op.kind \in CompositionKinds /\ WellShaped(op)) =>
        /\ (last.call = "mult" /\ Len(last.x) = cols(op)) =>
              /\ last.kind = "ok"
              /\ Len(last.val) = rows(op)
              /\ last.val = MatMult(Dense(op), last.x).val
              /\ \A y \in Vec(rows(op)) :
                    /\ transMult(op, y).kind = "ok"
                    /\ Dot(last.val, y) = Dot(last.x, transMult(op, y).val)
        /\ (last.call = "transMult" /\ Len(last.x) = rows(op)) =>
              /\ last.kind = "ok"
              /\ Len(last.val) = cols(op)
              /\ last.val = MatTransMult(Dense(op), last.x).val
              /\ \A x \in Vec(cols(op)) :
                    /\ mult(op, x).kind = "ok"
                    /\ Dot(mult(op, x).val, last.x) = Dot(x, last.val)

\* a product of a 2 x 1 and a 1 x 2 matrix has answered transMult with a
\* vector that is not zero
C9_Witness ==
    /\ op.kind = "Mult2"
    /\ MatCols(op.A) = 1
    /\ MatRows(op.A) = 2
    /\ last.call = "transMult"
    /\ last.kind = "ok"
    /\ last.val # Zeros(Len(last.val))

\* C8: with withRef the spur is zero and mult(x) = CM05.mult(x); without it
\* the spur is CM05.mult(ones(n)), mult(x) = CM05.mult(x) - spur * x, and
\* mult(ones(n)) is the zero vector; transMult(x) = mult(x) either way.
C8_Spur ==
    op.kind = "Geostatistical" =>
        LET n == op.nModel
            cm(x) == Cm05Matrix_mult(CM05(op), x).val
        IN  /\ op.withRef => op.spur = Zeros(n)
            /\ ~op.withRef => op.spur = cm(Ones(n))
            /\ (last.call \in {"mult", "transMult"} /\ Len(last.x) = n) =>
                  /\ last.kind = "ok"
                  /\ last.val =
                        [k \in 1 .. n |-> cm(last.x)[k] - op.spur[k] * last.x[k]]
                  /\ op.withRef => last.val = cm(last.x)
                  /\ (~op.withRef /\ last.x = Ones(n)) => last.val = Zeros(n)
                  /\ last.val = mult(op, last.x).val
                  /\ last.val = transMult(op, last.x).val

\* an operator built without withRef, whose spur is not zero, has answered
\* mult(ones(2)) with the zero vector
C8_Witness ==
    /\ op.kind = "Geostatistical"
    /\ ~op.withRef
    /\ op.nModel = 2
    /\ op.spur # Zeros(2)
    /\ op.spur[1] # op.spur[2]
    /\ last.call = "mult"
    /\ last.x = Ones(2)
    /\ last.val = Zeros(2)

PureCalls == {"rows", "cols", "mult", "transMult", "save"}

\* C10 as stated: nothing an operator offers, its property assignments
\* included, changes what it holds.
C10_Immutable == [][op.kind # "none" => op' = op]_vars

\* C10, amended: rows, cols, mult, transMult and save change nothing the
\* operator holds; a property assignment replaces one field, the one it names
\* (in MultLeft the name r replaces the left vector, and l cannot be assigned).
C10_ImmutableUnderCalls ==
    [][op.kind # "none" =>
          /\ last'.call \in PureCalls => op' = op
          /\ (last.call = "mult" /\ last'.call = "mult" /\ last'.x = last.x)
                => last' = last
          /\ last'.call = "A=" => op' = [op EXCEPT !.A = op'.A]
          /\ last'.call = "l=" =>
                op' = IF op.kind = "MultLeft" THEN op
                      ELSE [op EXCEPT !.l = last'.x]
          /\ last'.call = "r=" =>
                op' = IF op.kind = "MultLeft" THEN [op EXCEPT !.l = last'.x]
                      ELSE [op EXCEPT !.r = last'.x]]_vars

\* a MultRight operator whose right vector is not all ones has answered mult
C10_Witness ==
    /\ op.kind = "MultRight"
    /\ op.r # Ones(Len(op.r))
    /\ last.call = "mult"
    /\ last.kind = "ok"
    /\ last.x # Zeros(Len(last.x))

(* ------------------------------------------------------ block assembly *)

\* addMatrix calls on one assembly, and placements registered on it
MaxBlocks == 2

MaxEntries == 2

\* row=None, col=None
NoneArg == 0 - 1

Offsets == {0, 2}

Scales == {1, 2}

Range(n) == [k \in 1 .. n |-> k - 1]

RECURSIVE MaxTo(_, _)
MaxTo(f, n) ==
    IF n = 0 THEN 0
    ELSE LET m == MaxTo(f, n - 1) IN IF f[n] > m THEN f[n] ELSE m

\* What addMatrix is handed, and what the assembly holds: a vector (ndim 1,
\* values v), or a matrix (ndim 2) given by its stored entries: row indices i,
\* column indices j, values v, all counted from 0.
VectorObj(v) ==
    [type |-> "Vector", ndim |-> 1, rows |-> Len(v), cols |-> 0,
     i |-> <<>>, j |-> <<>>, v |-> v]

\* pg.Matrix: every entry stored, row by row
MatrixObj(m, n, v) ==
    [type |-> "Matrix", ndim |-> 2, rows |-> m, cols |-> n,
     i |-> [k \in 1 .. m * n |-> (k - 1) \div n],
     j |-> [k \in 1 .. m * n |-> (k - 1) % n],
     v |-> v]

\* SparseMapMatrix(i, j, v): rows max(i) + 1, columns max(j) + 1,
\* entry (i[k], j[k]) = v[k]
SparseMapMatrix(i, j, v) ==
    [type |-> "SparseMapMatrix", ndim |-> 2,
     rows |-> MaxTo([k \in 1 .. Len(i) |-> i[k] + 1], Len(i)),
     cols |-> MaxTo([k \in 1 .. Len(j) |-> j[k] + 1], Len(j)),
     i |-> i, j |-> j, v |-> v]

NoObj ==
    [type |-> "none", ndim |-> 0, rows |-> 0, cols |-> 0,
     i |-> <<>>, j |-> <<>>, v |-> <<>>]

\* entry (a, b) of a matrix object, a and b counted from 0
Elem(M, a, b) ==
    LET ks == {k \in 1 .. Len(M.v) : M.i[k] = a /\ M.j[k] = b}
    IN  IF ks = {} THEN 0 ELSE M.v[CHOOSE k \in ks : \A q \in ks : q <= k]

\* M.mult(x) of a matrix object
ObjMult(M, x) ==
    [a \in 1 .. M.rows |->
        SumTo([b \in 1 .. M.cols |-> Elem(M, a - 1, b - 1) * x[b]], M.cols)]

\* logger.critical: logs, then raises
critical(kind) == Raise(kind)

\* the objects callers hand to addMatrix
BlockInputs ==
    { VectorObj(<<1, 2>>),
      MatrixObj(2, 2, <<1, 2, 3, 4>>),
      MatrixObj(1, 2, <<1, 1>>),
      SparseMapMatrix(<<0, 1>>, <<0, 0>>, <<1, 2>>) }

\* a conversion whose index arrays are exchanged
Convert_swapped(M, transpose) ==
    IF M.ndim = 1
    THEN IF transpose = FALSE
         THEN Ok(SparseMapMatrix([k \in 1 .. Len(M.v) |-> 0], Range(Len(M.v)), M.v))
         ELSE Ok(SparseMapMatrix(Range(Len(M.v)), [k \in 1 .. Len(M.v) |-> 0], M.v))
    ELSE IF transpose = TRUE
         THEN IF M.type = "SparseMapMatrix"
              THEN Ok(SparseMapMatrix(M.j, M.i, M.v))
              ELSE critical("UnsupportedTranspose")
         ELSE Ok(M)

\* a conversion that goes on with M where it cannot transpose it
Convert_fallthrough(M, transpose) ==
    IF M.ndim = 1
    THEN IF transpose = FALSE
         THEN Ok(SparseMapMatrix(Range(Len(M.v)), [k \in 1 .. Len(M.v) |-> 0], M.v))
         ELSE Ok(SparseMapMatrix([k \in 1 .. Len(M.v) |-> 0], Range(Len(M.v)), M.v))
    ELSE IF transpose = TRUE
         THEN IF M.type = "SparseMapMatrix"
              THEN Ok(SparseMapMatrix(M.j, M.i, M.v))
              ELSE Ok(M)
         ELSE Ok(M)

\* addMatrix, first part: the matrix that is inserted for M
Convert(M, transpose) ==
    IF M.ndim = 1
    THEN IF transpose = FALSE
         THEN Ok(SparseMapMatrix(Range(Len(M.v)), [k \in 1 .. Len(M.v) |-> 0], M.v))
         ELSE Ok(SparseMapMatrix([k \in 1 .. Len(M.v) |-> 0], Range(Len(M.v)), M.v))
    ELSE IF transpose = TRUE
         THEN IF M.type = "SparseMapMatrix"
              THEN Ok(SparseMapMatrix(M.j, M.i, M.v))
              ELSE critical("UnsupportedTranspose")
         ELSE Ok(M)

\* The assembly: mats is self.__mats__ and core the storage engine's own list
\* of the matrices added (it does not keep them alive), both as places in the
\* heap; entries are the placements; returned counts the identifiers addMatrix
\* has returned.
NoAsm ==
    [kind |-> "none", mats |-> <<>>, core |-> <<>>, entries |-> <<>>,
     returned |-> 0]

\* RBlockMatrix.addMatrix of the storage engine: the identifier is the place
\* in its list, counted from 0
Core_addMatrix(a, k) == [a EXCEPT !.core = Append(@, k)]

\* RBlockMatrix.addMatrixEntry(matrixID, row, col, scale)
addMatrixEntry(a, id, row, col, scale) ==
    [a EXCEPT !.entries =
        Append(@, [id |-> id, row |-> row, col |-> col, scale |-> scale])]

\* an addMatrix that keeps no reference of its own
Hold_none(a, k) == a

\* addMatrix: self.__mats__.append(M)
Hold(a, k) == [a EXCEPT !.mats = Append(@, k)]

\* a placement made when either of row and col is given
Place_either(a, id, row, col, scale) ==
    IF row # NoneArg \/ col # NoneArg
    THEN addMatrixEntry(a, id, IF row = NoneArg THEN 0 ELSE row,
                        IF col = NoneArg THEN 0 ELSE col, scale)
    ELSE a

\* addMatrix: the placement, when row and col are both given
Place(a, id, row, col, scale) ==
    IF row # NoneArg /\ col # NoneArg
    THEN addMatrixEntry(a, id, row, col, scale)
    ELSE a

\* __BlockMatrix_addMatrix_happy_GC__(self, M, row, col, scale, transpose) on
\* assembly a with heap h.  k = 0: M is a new object of the caller; k > 0: M
\* is the caller's object heap[k].  What Convert makes is a new object that
\* only the assembly refers to.
BlockMatrix_addMatrix_happy_GC(a, h, M, k, row, col, scale, transpose) ==
    LET c == Convert(M, transpose)
    IN  IF c.kind # "ok" THEN [asm |-> a, heap |-> h, out |-> c]
        ELSE LET made == (M.ndim = 1 \/ transpose = TRUE)
                 h2 == IF made THEN Append(h, [obj |-> c.val, caller |-> FALSE])
                       ELSE IF k = 0
                       THEN Append(h, [obj |-> M, caller |-> TRUE])
                       ELSE h
                 at == IF made \/ k = 0 THEN Len(h2) ELSE k
                 a1 == Hold(a, at)
                 matrixID == Len(a1.core)
                 a2 == Core_addMatrix(a1, at)
                 a3 == Place(a2, matrixID, row, col, scale)
             IN  [asm |-> [a3 EXCEPT !.returned = @ + 1], heap |-> h2,
                  out |-> Ok(matrixID)]

\* RBlockMatrix.recalcMatrixSize, rows() and cols(): over the placements
RECURSIVE BlockMatrix_rows(_, _, _)
BlockMatrix_rows(a, h, n) ==
    IF n = 0 THEN 0
    ELSE LET e == a.entries[n]
             r == e.row + h[a.core[e.id + 1]].obj.rows
             m == BlockMatrix_rows(a, h, n - 1)
         IN  IF r > m THEN r ELSE m

RECURSIVE BlockMatrix_cols(_, _, _)
BlockMatrix_cols(a, h, n) ==
    IF n = 0 THEN 0
    ELSE LET e == a.entries[n]
             c == e.col + h[a.core[e.id + 1]].obj.cols
             m == BlockMatrix_cols(a, h, n - 1)
         IN  IF c > m THEN c ELSE m

Rows(a, h) == BlockMatrix_rows(a, h, Len(a.entries))

Cols(a, h) == BlockMatrix_cols(a, h, Len(a.entries))

\* RBlockMatrix.mult: placement by placement, scale * block.mult(slice of x)
\* added to a slice of the result
RECURSIVE BlockMatrix_mult(_, _, _, _)
BlockMatrix_mult(a, h, x, n) ==
    IF n = 0 THEN Zeros(Rows(a, h))
    ELSE LET e == a.entries[n]
             M == h[a.core[e.id + 1]].obj
             part == ObjMult(M, [b \in 1 .. M.cols |-> x[e.col + b]])
             acc == BlockMatrix_mult(a, h, x, n - 1)
         IN  [q \in 1 .. Len(acc) |->
                 IF q > e.row /\ q <= e.row + M.rows
                 THEN acc[q] + e.scale * part[q - e.row]
                 ELSE acc[q]]

Mult(a, h, x) ==
    IF Len(x) # Cols(a, h) THEN Raise("ShapeMismatch")
    ELSE Ok(BlockMatrix_mult(a, h, x, Len(a.entries)))

\* an NDMatrix whose blocks all take the row step as their column step
RECURSIVE NDMatrix_init_rowStep(_, _, _, _)
NDMatrix_init_rowStep(st, num, nrows, ncols) ==
    IF num = 0 THEN st
    ELSE LET s == NDMatrix_init_rowStep(st, num - 1, nrows, ncols)
             i == num - 1
             Ji == MatrixObj(nrows, ncols, Zeros(nrows * ncols))
             r == BlockMatrix_addMatrix_happy_GC(s.asm, s.heap, Ji, 0, NoneArg,
                                        NoneArg, 1, FALSE)
         IN  [asm |-> addMatrixEntry(r.asm, r.out.val, nrows * i, nrows * i, 1),
              heap |-> r.heap]

\* NDMatrix(num, nrows, ncols): st is the new, empty assembly; block i is a
\* new nrows x ncols pg.Matrix, kept in self.Ji, added and placed at
\* (nrows * i, ncols * i) with the storage engine's scale of 1
RECURSIVE NDMatrix_init(_, _, _, _)
NDMatrix_init(st, num, nrows, ncols) ==
    IF num = 0 THEN st
    ELSE LET s == NDMatrix_init(st, num - 1, nrows, ncols)
             i == num - 1
             Ji == MatrixObj(nrows, ncols, Zeros(nrows * ncols))
             r == BlockMatrix_addMatrix_happy_GC(s.asm, s.heap, Ji, 0, NoneArg,
                                        NoneArg, 1, FALSE)
         IN  [asm |-> addMatrixEntry(r.asm, r.out.val, nrows * i, ncols * i, 1),
              heap |-> r.heap]

(* ------------------------------------------- actions of the assembly *)

\* the last call on the assembly: its name, its arguments, its outcome
NoRet ==
    [call |-> "none", kind |-> "ok", val |-> <<>>, M |-> NoObj,
     row |-> NoneArg, col |-> NoneArg, scale |-> 0, transpose |-> FALSE]

OpIdle == UNCHANGED <<op, last>>

NewBlockMatrix ==
    /\ asm.kind = "none"
    /\ asm' = [NoAsm EXCEPT !.kind = "BlockMatrix"]
    /\ ret' = [NoRet EXCEPT !.call = "init"]
    /\ UNCHANGED heap
    /\ OpIdle

NewNDMatrix ==
    /\ asm.kind = "none"
    /\ \E num \in 0 .. MaxBlocks, nrows \in Dims, ncols \in Dims :
        LET s == NDMatrix_init([asm |-> [NoAsm EXCEPT !.kind = "NDMatrix"],
                                heap |-> heap], num, nrows, ncols)
        IN  /\ asm' = s.asm
            /\ heap' = s.heap
            /\ ret' = [NoRet EXCEPT !.call = "NDMatrix",
                                    !.val = <<num, nrows, ncols>>]
    /\ OpIdle

\* addMatrix and addMatrixEntry belong to the build phase, which ends with the
\* first mult
Building == asm.kind # "none" /\ ret.call # "mult"

AddMatrix ==
    /\ Building
    /\ asm.returned < MaxBlocks
    /\ \E k \in 0 .. Len(heap), row \in Offsets \cup {NoneArg},
          col \in Offsets \cup {NoneArg}, scale \in Scales,
          transpose \in BOOLEAN :
        /\ k > 0 => heap[k].caller
        /\ (row # NoneArg /\ col # NoneArg) => Len(asm.entries) < MaxEntries
        /\ (row = NoneArg \/ col = NoneArg) => scale = 1
        /\ \E M \in IF k = 0 THEN BlockInputs ELSE {heap[k].obj} :
            LET r == BlockMatrix_addMatrix_happy_GC(asm, heap, M, k, row, col, scale,
                                           transpose)
            IN  /\ asm' = r.asm
                /\ heap' = r.heap
                /\ ret' = [call |-> "addMatrix", kind |-> r.out.kind,
                           val |-> r.out.val, M |-> M, row |-> row,
                           col |-> col, scale |-> scale,
                           transpose |-> transpose]
    /\ OpIdle

\* a later placement of a block by its identifier
AddMatrixEntry ==
    /\ Building
    /\ Len(asm.entries) < MaxEntries
    /\ \E id \in 0 .. Len(asm.core) - 1, row \in Offsets, col \in Offsets,
          scale \in Scales :
        /\ asm' = addMatrixEntry(asm, id, row, col, scale)
        /\ ret' = [NoRet EXCEPT !.call = "addMatrixEntry", !.val = id,
                                !.row = row, !.col = col, !.scale = scale]
    /\ UNCHANGED heap
    /\ OpIdle

\* the vectors mult is tried on: all ones, and 1, 2, ..., n
Probes(n) == {Ones(n), [b \in 1 .. n |-> b]}

BlockMult ==
    /\ asm.kind # "none"
    /\ Cols(asm, heap) > 0
    /\ \E x \in Probes(Cols(asm, heap)) :
        LET r == Mult(asm, heap, x)
        IN  ret' = [NoRet EXCEPT !.call = "mult", !.kind = r.kind,
                                 !.val = r.val, !.M = VectorObj(x)]
    /\ UNCHANGED <<asm, heap>>
    /\ OpIdle

\* the caller lets go of its reference to an object it handed over
CallerDrop ==
    /\ \E k \in 1 .. Len(heap) :
        /\ heap[k].caller
        /\ heap' = [heap EXCEPT ![k].caller = FALSE]
    /\ ret' = [NoRet EXCEPT !.call = "drop"]
    /\ UNCHANGED asm
    /\ OpIdle

NextBlock ==
    \/ NewBlockMatrix
    \/ NewNDMatrix
    \/ AddMatrix
    \/ AddMatrixEntry
    \/ BlockMult
    \/ CallerDrop

SpecBlock == Init /\ [][NextBlock]_vars

(* ----------------------------------------- properties: the assembly *)

\* the object a placement or an identifier stands for
BlockOf(a, h, id) == h[a.core[id + 1]].obj

HeldPlaces(a) == {a.mats[q] : q \in 1 .. Len(a.mats)}

\* an object lives while its caller or the assembly's list refers to it
Alive(a, h, k) == h[k].caller \/ k \in HeldPlaces(a)

\* C3: after any addMatrix calls, every identifier returned names an operator
\* the assembly's own list holds (so it lives, whatever the caller drops), the
\* list never shrinks, and it is as long as the identifiers returned are many.
C3_Ownership ==
    [][/\ Len(asm'.mats) = asm'.returned
       /\ Len(asm'.core) = asm'.returned
       /\ \A id \in 0 .. asm'.returned - 1 :
             /\ asm'.core[id + 1] \in HeldPlaces(asm')
             /\ Alive(asm', heap', asm'.core[id + 1])
       /\ Len(asm'.mats) >= Len(asm.mats)
       /\ \A q \in 1 .. Len(asm.mats) : asm'.mats[q] = asm.mats[q]]_vars

\* two blocks were added, and the caller has dropped its own matrix, the
\* first of them
C3_Witness ==
    /\ asm.returned = 2
    /\ ret.call = "drop"
    /\ heap[asm.core[1]].obj.type = "Matrix"
    /\ ~heap[asm.core[1]].caller

\* addMatrix is asked for a transpose it cannot make
NoTranspose(r) ==
    r.transpose /\ r.M.ndim # 1 /\ r.M.type # "SparseMapMatrix"

\* C4: addMatrix returns the block's identifier; it registers exactly the
\* placement (id, row, col, scale) when row and col are both given, and none
\* otherwise, also when one of them is given: then rows(), cols() and mult
\* are what they were.
C4_Placement ==
    [][(ret'.call = "addMatrix" /\ ~NoTranspose(ret')) =>
          /\ ret'.kind = "ok"
          /\ ret'.val = Len(asm.core)
          /\ asm'.returned = asm.returned + 1
          /\ BlockOf(asm', heap', ret'.val) = Convert(ret'.M, ret'.transpose).val
          /\ IF ret'.row # NoneArg /\ ret'.col # NoneArg
             THEN asm'.entries =
                      Append(asm.entries,
                             [id |-> ret'.val, row |-> ret'.row,
                              col |-> ret'.col, scale |-> ret'.scale])
             ELSE /\ asm'.entries = asm.entries
                  /\ Rows(asm', heap') = Rows(asm, heap)
                  /\ Cols(asm', heap') = Cols(asm, heap)
                  /\ \A x \in Probes(Cols(asm, heap)) :
                        Mult(asm', heap', x) = Mult(asm, heap, x)]_vars

\* a second block was added with a row and no column, onto one placed block
C4_Witness ==
    /\ ret.call = "addMatrix"
    /\ ret.kind = "ok"
    /\ ret.val = 1
    /\ ret.row = 2
    /\ ret.col = NoneArg
    /\ Len(asm.entries) = 1
    /\ Rows(asm, heap) = 2

PlacedAt(a, n, row, col) ==
    /\ a.entries[n].row = row
    /\ a.entries[n].col = col
    /\ a.entries[n].scale = 1

\* C5: rows() and cols() are the largest rowOffset + blockRows and
\* colOffset + blockCols of the placed blocks; mult(x) is the sum over the
\* placed blocks of scale * block.mult(slice of x) at the block's rows, zero
\* elsewhere; two 2 x 2 blocks at (0,0) and (2,2) give a 4 x 4 operator; and
\* NDMatrix(num, nrows, ncols) has num * nrows rows and num * ncols columns.
C5_BlockShape ==
    asm.kind # "none" =>
        LET R == Rows(asm, heap)
            C == Cols(asm, heap)
            placed == 1 .. Len(asm.entries)
            e(n) == asm.entries[n]
            blk(n) == BlockOf(asm, heap, asm.entries[n].id)
        IN  /\ \A n \in placed :
                  /\ e(n).row + blk(n).rows <= R
                  /\ e(n).col + blk(n).cols <= C
            /\ IF placed = {} THEN R = 0 /\ C = 0
               ELSE /\ \E n \in placed : e(n).row + blk(n).rows = R
                    /\ \E n \in placed : e(n).col + blk(n).cols = C
            /\ ret.call = "NDMatrix" =>
                  /\ R = ret.val[1] * ret.val[2]
                  /\ C = ret.val[1] * ret.val[3]
                  /\ asm.returned = ret.val[1]
            /\ (Len(asm.entries) = 2 /\ PlacedAt(asm, 1, 0, 0)
                  /\ PlacedAt(asm, 2, 2, 2)
                  /\ \A n \in placed : blk(n).rows = 2 /\ blk(n).cols = 2) =>
                  /\ R = 4
                  /\ C = 4
                  /\ (ret.call = "mult" /\ ret.M.v = Ones(4)) =>
                        ret.val = ObjMult(blk(1), Ones(2))
                                  \o ObjMult(blk(2), Ones(2))
            /\ ret.call = "mult" =>
                  /\ ret.kind = "ok"
                  /\ Len(ret.val) = R
                  /\ \A a \in 1 .. R :
                        ret.val[a] =
                            SumTo([n \in placed |->
                                    SumTo([b \in 1 .. C |->
                                            e(n).scale
                                            * Elem(blk(n), a - 1 - e(n).row,
                                                   b - 1 - e(n).col)
                                            * ret.M.v[b]], C)],
                                  Len(asm.entries))

\* two 2 x 2 blocks at (0,0) and (2,2) have answered mult(ones(4))
C5_Witness ==
    /\ Len(asm.entries) = 2
    /\ PlacedAt(asm, 1, 0, 0)
    /\ PlacedAt(asm, 2, 2, 2)
    /\ ret.call = "mult"
    /\ ret.val = <<3, 7, 3, 7>>

\* the block addMatrix has just inserted for a vector M
VectorCase == ret.call = "addMatrix" /\ ret.kind = "ok" /\ ret.M.ndim = 1

IsRow(B, v) ==
    /\ B.rows = 1
    /\ B.cols = Len(v)
    /\ \A k \in 0 .. Len(v) - 1 : Elem(B, 0, k) = v[k + 1]

IsColumn(B, v) ==
    /\ B.rows = Len(v)
    /\ B.cols = 1
    /\ \A k \in 0 .. Len(v) - 1 : Elem(B, k, 0) = v[k + 1]

\* C6 as stated: a vector M of length n is inserted as a row vector (1 x n)
\* if transpose is False and as a column vector (n x 1) if it is True.
C6_VectorBlock ==
    VectorCase =>
        IF ret.transpose
        THEN IsColumn(BlockOf(asm, heap, ret.val), ret.M.v)
        ELSE IsRow(BlockOf(asm, heap, ret.val), ret.M.v)

\* C6, amended: a vector M of length n is inserted as a column vector (n x 1,
\* entry (k,0) = M[k]) if transpose is False and as a row vector (1 x n,
\* entry (0,k) = M[k]) if it is True.
C6_VectorBlockAmended ==
    VectorCase =>
        IF ret.transpose
        THEN IsRow(BlockOf(asm, heap, ret.val), ret.M.v)
        ELSE IsColumn(BlockOf(asm, heap, ret.val), ret.M.v)

\* a vector of length 2 was added without transpose
C6_Witness ==
    /\ VectorCase
    /\ ~ret.transpose
    /\ Len(ret.M.v) = 2
    /\ BlockOf(asm, heap, ret.val).rows = 2

\* C7: addMatrix with transpose=True on a matrix that is no sparse map matrix
\* fails with UnsupportedTranspose and leaves the assembly as it was: nothing
\* appended to the held list, no identifier, no placement.
C7_UnsupportedTranspose ==
    [][(ret'.call = "addMatrix" /\ NoTranspose(ret')) =>
          /\ ret'.kind = "UnsupportedTranspose"
          /\ asm' = asm
          /\ heap' = heap]_vars

\* the transpose of a dense matrix was refused by an assembly holding a block
C7_Witness ==
    /\ ret.call = "addMatrix"
    /\ ret.kind = "UnsupportedTranspose"
    /\ ret.M.type = "Matrix"
    /\ ret.row = 0
    /\ ret.col = 0
    /\ asm.returned = 1
    /\ Len(asm.mats) = 1

====
